---- MODULE Spec2Model ----
(***************************************************************************)
(* Model of simplifyPrimitive (packages/functions/src/simplify.ts): mesh   *)
(* simplification by iterative pair contraction with quadric error         *)
(* metrics.                                                                *)
(*                                                                         *)
(* Conventions.                                                            *)
(*  - Vertex ids are 0-based as in the source; the index buffer is a       *)
(*    sequence of triangles <<a, b, c>> (three consecutive entries of the  *)
(*    flat array), triangle number t standing for offset i = 3 * (t - 1).  *)
(*  - `indices` is the primitive's own index array: the loop mutates it in *)
(*    place and the final step replaces it by the compacted copy.          *)
(*  - A 4x4 matrix is its flat 16-element array, entry (i, j) of the       *)
(*    ndarray at 4 * i + j.                                                *)
(*  - Vertex positions are integer points, so a face normal is an integer  *)
(*    vector N with squared length L; the source scales it by 1 / sqrt(L)  *)
(*    when L > 1.  A plane is kept as the pair (N, L) and every quadric    *)
(*    entry and cost is kept multiplied by QScale, which makes the         *)
(*    products plane[i] * plane[j] = N[i] * N[j] / L exact integers.       *)
(*  - The heap is the bag of the pair records it holds; pop removes any    *)
(*    record of least cost (the order among equal costs is left open).     *)
(*    A popped record is never read again by the source and is dropped.    *)
(***************************************************************************)
EXTENDS Integers, Sequences, FiniteSets, Bags, TLC

VARIABLES
    pc,                 \* position in simplifyPrimitive
    mode,               \* prim.getMode()
    targets,            \* prim.listTargets().length
    attributes,         \* the primitive's attribute buffers: semantic -> vertex -> element
    indices,            \* the primitive's index array
    target,             \* options.target
    distanceThreshold,  \* options.distanceThreshold
    warnings,           \* number of logger.warn calls
    vertices,           \* listVertices(prim): vertex id -> Vertex
    qi,                 \* next triangle of the quadric accumulation loop
    pairs,              \* the heap of Pair records
    n,                  \* vertices.length
    targetCount,
    deletedCount,
    deletedFaces,
    origIndices,        \* the index array as it was passed in
    origAttributes,     \* the attribute buffers as they were passed in
    last,               \* what the latest step of the contraction loop did
    absorbed,           \* the vertex ids absorbed as b by a counted collapse so far
    bc                  \* the call of boundsCheck: options, scene bounds, errorModelValue

vars == <<pc, mode, targets, attributes, indices, target, distanceThreshold,
          warnings, vertices, qi, pairs, n, targetCount, deletedCount,
          deletedFaces, origIndices, origAttributes, last, absorbed, bc>>

-----------------------------------------------------------------------------
(* Bounds of the inputs. *)

MaxVerts == 3
MaxTris == 1
MaxDim == 2

(* Common multiple of the squared lengths a face normal between corners of *)
(* a unit cube can have (1, 2, 3).                                         *)
QScale == 2 * 3

TRIANGLES == "TRIANGLES"
Modes == {TRIANGLES, "LINES"}

(* options.target and options.distanceThreshold as fractions               *)
(* <<numerator, denominator>>.                                             *)
Targets == {<<1, 4>>, <<9, 10>>, <<1, 1>>}
Thresholds == {<<0, 1>>, <<6, 5>>}
CubeTarget == <<1, 2>>

(* Vertex k of every input mesh sits at corner k of a unit cube. *)
Corner(k) ==
    CASE k = 0 -> <<0, 0, 0>>
      [] k = 1 -> <<1, 0, 0>>
      [] k = 2 -> <<0, 1, 0>>
      [] k = 3 -> <<0, 0, 1>>
      [] k = 4 -> <<1, 1, 0>>
      [] k = 5 -> <<1, 0, 1>>
      [] k = 6 -> <<0, 1, 1>>
      [] OTHER -> <<1, 1, 1>>

(* The welded cube: 8 vertices, 12 triangles, two per face. *)
CubeIndices ==
    << <<0, 2, 4>>, <<0, 4, 1>>,      \* z = 0
       <<3, 5, 7>>, <<3, 7, 6>>,      \* z = 1
       <<0, 1, 5>>, <<0, 5, 3>>,      \* y = 0
       <<2, 6, 7>>, <<2, 7, 4>>,      \* y = 1
       <<0, 3, 6>>, <<0, 6, 2>>,      \* x = 0
       <<1, 4, 7>>, <<1, 7, 5>> >>    \* x = 1

CubeMesh == [n |-> 8, tris |-> CubeIndices]

(* A triangle's quadric and its three edges do not depend on the order of  *)
(* its corners, so the small meshes list each triangle with its corners in *)
(* non-decreasing order (repeated corners included).                       *)
Triples(k) ==
    {tri \in (0 .. k - 1) \X (0 .. k - 1) \X (0 .. k - 1) :
        tri[1] <= tri[2] /\ tri[2] <= tri[3]}

TriLists(k) == UNION {[1 .. len -> Triples(k)] : len \in 0 .. MaxTris}

Meshes ==
    UNION {{[n |-> k, tris |-> t] : t \in TriLists(k)} : k \in 1 .. MaxVerts}
    \cup {CubeMesh}

-----------------------------------------------------------------------------
(* gl-matrix helpers on integer vectors. *)

subtract(a, b) == <<a[1] - b[1], a[2] - b[2], a[3] - b[3]>>

cross(a, b) ==
    <<a[2] * b[3] - a[3] * b[2],
      a[3] * b[1] - a[1] * b[3],
      a[1] * b[2] - a[2] * b[1]>>

dot(a, b) == a[1] * b[1] + a[2] * b[2] + a[3] * b[3]

squaredLength(a) == dot(a, a)

(* dist(p, q) < threshold, on the squares. *)
WithinThreshold(p, q, threshold) ==
    squaredLength(subtract(p, q)) * threshold[2] * threshold[2]
        < threshold[1] * threshold[1]

ZERO_MAT4 == [k \in 0 .. 15 |-> 0]

(* Mutation: the matrices are subtracted instead of added. *)
addSubtracted(A, B) == [k \in 0 .. 15 |-> A[k] - B[k]]

add(A, B) == [k \in 0 .. 15 |-> A[k] + B[k]]

(* The normal N / sqrt(div): rescaled to unit length only when L > 1. *)
getFaceNormal(a, b, c) ==
    LET v1 == subtract(c.attributes.POSITION, b.attributes.POSITION)
        v2 == subtract(a.attributes.POSITION, b.attributes.POSITION)
        normal == cross(v1, v2)
        lengthSq == squaredLength(normal)
    IN  [v |-> normal, div |-> IF lengthSq > 1 THEN lengthSq ELSE 1]

FacePlane(a, b, c) ==
    LET normal == getFaceNormal(a, b, c)
    IN  [v |-> <<normal.v[1], normal.v[2], normal.v[3],
                 dot(a.attributes.POSITION, normal.v)>>,
         div |-> normal.div]

(* Mutation: the mirrored entry (j, i) is not set. *)
PlaneQuadricLower(plane) ==
    [k \in 0 .. 15 |->
        LET i == k \div 4
            j == k % 4
        IN  IF j <= i
            THEN (QScale * plane.v[i + 1] * plane.v[j + 1]) \div plane.div
            ELSE 0]

(* error.set(i, j, plane[i] * plane[j]) for j <= i, mirrored to (j, i). *)
PlaneQuadric(plane) ==
    [k \in 0 .. 15 |->
        LET i == k \div 4
            j == k % 4
        IN  IF j <= i
            THEN (QScale * plane.v[i + 1] * plane.v[j + 1]) \div plane.div
            ELSE (QScale * plane.v[j + 1] * plane.v[i + 1]) \div plane.div]

(* add(prevError, prevError, error) for each v of [a, b, c] in turn. *)
AddError(vs, id, error) == [vs EXCEPT ![id].error = add(@, error)]

AccumulateTriangle(vs, tri) ==
    LET error == PlaneQuadric(FacePlane(vs[tri[1]], vs[tri[2]], vs[tri[3]]))
    IN  AddError(AddError(AddError(vs, tri[1], error), tri[2], error), tri[3], error)

(* dotVec4(transformMat4(out, pos, quadratic), pos) with pos = (x, y, z, 1) *)
vertexError(vertex, quadratic) ==
    LET pos == [i \in 0 .. 3 |-> IF i = 3 THEN 1 ELSE vertex.attributes.POSITION[i + 1]]
        out == [i \in 0 .. 3 |->
                    quadratic[i] * pos[0] + quadratic[4 + i] * pos[1]
                    + quadratic[8 + i] * pos[2] + quadratic[12 + i] * pos[3]]
    IN  out[0] * pos[0] + out[1] * pos[1] + out[2] * pos[2] + out[3] * pos[3]

(* The result is the Vertex object itself; it is named by its index. *)
merge(a, b) ==
    LET quadratic == add(a.error, b.error)
        aCost == vertexError(a, quadratic)
        bCost == vertexError(b, quadratic)
    IN  IF aCost <= bCost
        THEN [result |-> a.index, cost |-> aCost]
        ELSE [result |-> b.index, cost |-> bCost]

listVertices(attrs) ==
    [i \in 0 .. Len(attrs.POSITION) - 1 |->
        [index |-> i,
         error |-> ZERO_MAT4,
         attributes |-> [s \in DOMAIN attrs |-> attrs[s][i + 1]]]]

(* Mutation: the element is written at every index. *)
updateVertexAll(attrs, index, vertex) ==
    [s \in DOMAIN attrs |-> [k \in DOMAIN attrs[s] |-> vertex.attributes[s]]]

(* attribute.setElement(index, vertex.attributes[semantic]) per semantic *)
updateVertex(attrs, index, vertex) ==
    [s \in DOMAIN attrs |-> [attrs[s] EXCEPT ![index + 1] = vertex.attributes[s]]]

-----------------------------------------------------------------------------
(* 2. Select all valid pairs. *)

(* Mutation: the reversed edge is pushed as the vertex itself. *)
PushPairSelf(pl, indexA, indexB) ==
    IF indexA < indexB
    THEN [pl EXCEPT ![indexA] = Append(@, indexB)]
    ELSE [pl EXCEPT ![indexB] = Append(@, indexB)]

(* Consistent ordering: the larger index goes into the smaller one's list. *)
PushPair(pl, indexA, indexB) ==
    IF indexA < indexB
    THEN [pl EXCEPT ![indexA] = Append(@, indexB)]
    ELSE [pl EXCEPT ![indexB] = Append(@, indexA)]

RECURSIVE EdgePairs(_, _, _)
EdgePairs(idx, t, pl) ==
    IF t > Len(idx) THEN pl
    ELSE LET a == idx[t][1]
             b == idx[t][2]
             c == idx[t][3]
         IN  EdgePairs(idx, t + 1,
                 PushPair(PushPair(PushPair(pl, a, b), b, c), c, a))

(* for i in 0 .. n-1, for j = i-1 down to 0 *)
RECURSIVE ProximityPairs(_, _, _, _, _)
ProximityPairs(vs, threshold, i, j, pl) ==
    IF i >= Cardinality(DOMAIN vs) THEN pl
    ELSE IF j < 0 THEN ProximityPairs(vs, threshold, i + 1, i, pl)
    ELSE ProximityPairs(vs, threshold, i, j - 1,
            IF WithinThreshold(vs[i].attributes.POSITION,
                               vs[j].attributes.POSITION, threshold)
            THEN PushPair(pl, i, j)
            ELSE pl)

ProximityEnabled(threshold) == threshold[1] > 0

(* vertices[i].pairs for every i *)
SelectPairs(vs, idx, threshold) ==
    LET fromEdges == EdgePairs(idx, 1, [i \in DOMAIN vs |-> <<>>])
    IN  IF ProximityEnabled(threshold)
        THEN ProximityPairs(vs, threshold, 0, -1, fromEdges)
        ELSE fromEdges

(* 3. One Pair record per entry of every vertices[i].pairs, in the order   *)
(* the source pushes them.                                                 *)
RECURSIVE ListEdges(_, _, _)
ListEdges(vs, pl, i) ==
    IF i >= Cardinality(DOMAIN vs) THEN <<>>
    ELSE [k \in 1 .. Len(pl[i]) |->
             LET m == merge(vs[i], vs[pl[i][k]])
             IN  [vertices |-> <<i, pl[i][k]>>, result |-> m.result, cost |-> m.cost]]
         \o ListEdges(vs, pl, i + 1)

InitialEdges(vs, idx, threshold) == ListEdges(vs, SelectPairs(vs, idx, threshold), 0)

SeqToBag(s) ==
    [e \in {s[k] : k \in DOMAIN s} |-> Cardinality({k \in DOMAIN s : s[k] = e})]

-----------------------------------------------------------------------------
(* 4. The contraction loop. *)

(* Math.round(n * target) for target = num / den: halves round up. *)
(* Mutation: the product is rounded down. *)
RoundDown(k, tg) == (k * tg[1]) \div tg[2]

Round(k, tg) == (2 * k * tg[1] + tg[2]) \div (2 * tg[2])

(* Mutation: the loop also runs when the target has just been reached. *)
LoopConditionInclusive(count, deleted, tCount) == count - deleted >= tCount

LoopCondition(count, deleted, tCount) == count - deleted > tCount

(* Mutation: the pop returns any pair of the heap. *)
AnyPair(heap) == BagToSet(heap)

LeastCost(heap) ==
    {e \in BagToSet(heap) : \A f \in BagToSet(heap) : e.cost <= f.cost}

indexOf(cells, x) ==
    IF \E k \in DOMAIN cells : cells[k] = x
    THEN (CHOOSE k \in DOMAIN cells : cells[k] = x /\ \A m \in 1 .. k - 1 : cells[m] # x) - 1
    ELSE -1

(* Mutation: the position of a is tested for truth, missing position 0. *)
FaceDeletedTruthy(cells, a, b) == indexOf(cells, b) >= 0 /\ indexOf(cells, a) > 0

(* Mutation: a cell is flagged as soon as it holds one of the two. *)
FaceDeletedEither(cells, a, b) == indexOf(cells, b) >= 0 \/ indexOf(cells, a) >= 0

(* Delete cells with zero area, as A == B now. *)
FaceDeleted(cells, a, b) == indexOf(cells, b) >= 0 /\ indexOf(cells, a) >= 0

ReplaceIndex(cells, a, b) ==
    IF indexOf(cells, b) >= 0
    THEN [k \in 1 .. 3 |-> IF cells[k] = b THEN a ELSE cells[k]]
    ELSE cells

(* The scan over `edges` after vertices[a] has taken the merge result. *)
UpdateEdge(edge, vs, a, b) ==
    LET edgeIndexA == indexOf(edge.vertices, a)
        edgeIndexB == indexOf(edge.vertices, b)
    IN  IF edgeIndexA >= 0 /\ edgeIndexB >= 0
        THEN [edge EXCEPT !.vertices[edgeIndexB + 1] = a]
        ELSE IF edgeIndexA >= 0
        THEN LET m == merge(vs[a], vs[edge.vertices[((edgeIndexA + 1) % 2) + 1]])
             IN  [edge EXCEPT !.result = m.result, !.cost = m.cost]
        ELSE IF edgeIndexB >= 0
        THEN LET m == merge(vs[a], vs[edge.vertices[((edgeIndexB + 1) % 2) + 1]])
             IN  [edge EXCEPT !.result = m.result, !.cost = m.cost]
        ELSE edge

(* Mutation: the surviving triangles are written back to front. *)
RECURSIVE CompactReversed(_, _, _)
CompactReversed(idx, flags, t) ==
    IF t > Len(idx) THEN <<>>
    ELSE CompactReversed(idx, flags, t + 1) \o (IF flags[t] THEN <<>> ELSE <<idx[t]>>)

(* Mutation: the surviving triangles are appended to the old array. *)
RECURSIVE CompactAppended(_, _, _)
CompactAppended(idx, flags, t) ==
    IF t > Len(idx) THEN idx
    ELSE (IF flags[t] THEN <<>> ELSE <<idx[t]>>) \o CompactAppended(idx, flags, t + 1)

(* 5. The compacted index array. *)
RECURSIVE Compact(_, _, _)
Compact(idx, flags, t) ==
    IF t > Len(idx) THEN <<>>
    ELSE (IF flags[t] THEN <<>> ELSE <<idx[t]>>) \o Compact(idx, flags, t + 1)

-----------------------------------------------------------------------------
(* The state machine. *)

Element(s, k) == IF s = "POSITION" THEN Corner(k) ELSE <<k>>

Init ==
    \E mesh \in Meshes, tg \in Targets \cup {CubeTarget}, th \in Thresholds, md \in Modes,
       mt \in 0 .. 1, tangent \in BOOLEAN :
        /\ mesh # CubeMesh => tg \in Targets
        /\ mesh = CubeMesh =>
              tg = CubeTarget /\ th = <<0, 1>> /\ md = TRIANGLES /\ mt = 0 /\ ~tangent
        /\ pc = "start"
        /\ mode = md
        /\ targets = mt
        /\ attributes =
              [s \in {"POSITION", "TEXCOORD_0"} \cup (IF tangent THEN {"TANGENT"} ELSE {}) |->
                  [k \in 1 .. mesh.n |-> Element(s, k - 1)]]
        /\ indices = mesh.tris
        /\ target = tg
        /\ distanceThreshold = th
        /\ warnings = 0
        /\ vertices = <<>>
        /\ qi = 1
        /\ pairs = EmptyBag
        /\ n = 0
        /\ targetCount = 0
        /\ deletedCount = 0
        /\ deletedFaces = <<>>
        /\ origIndices = indices
        /\ origAttributes = attributes
        /\ last = [op |-> "none"]
        /\ absorbed = {}
        /\ bc = [pc |-> "idle"]

(* Mutation: the draw mode is not looked at. *)
SkippedMorphOnly(morphTargets, drawMode) == morphTargets > 0

Skipped(morphTargets, drawMode) == morphTargets > 0 \/ drawMode # TRIANGLES

(* Unsupported primitive: one warning, return. *)
SkipPrimitive ==
    /\ pc = "start"
    /\ Skipped(targets, mode)
    /\ warnings' = warnings + 1
    /\ pc' = "skipped"
    /\ UNCHANGED <<mode, targets, attributes, indices, target, distanceThreshold,
                   vertices, qi, pairs, n, targetCount, deletedCount,
                   deletedFaces, origIndices, origAttributes, last,
                   absorbed, bc>>

(* Mutation: the tangent accessor is warned about but not disposed. *)
KeepTangent(attrs) == attrs

(* tangent.dispose() takes the accessor out of the primitive's attributes. *)
RemoveTangent(attrs) == [s \in DOMAIN attrs \ {"TANGENT"} |-> attrs[s]]

Preprocess ==
    /\ pc = "start"
    /\ ~Skipped(targets, mode)
    /\ warnings' = IF "TANGENT" \in DOMAIN attributes THEN warnings + 1 ELSE warnings
    /\ attributes' = RemoveTangent(attributes)
    /\ vertices' = listVertices(attributes')
    /\ qi' = 1
    /\ pc' = "quadrics"
    /\ UNCHANGED <<mode, targets, indices, target, distanceThreshold, pairs, n,
                   targetCount, deletedCount, deletedFaces, origIndices,
                   origAttributes, last,
                   absorbed, bc>>

(* 1. One iteration of the loop over the triangles. *)
AccumulateQuadric ==
    /\ pc = "quadrics"
    /\ qi <= Len(indices)
    /\ vertices' = AccumulateTriangle(vertices, indices[qi])
    /\ qi' = qi + 1
    /\ UNCHANGED <<pc, mode, targets, attributes, indices, target,
                   distanceThreshold, warnings, pairs, n, targetCount,
                   deletedCount, deletedFaces, origIndices, origAttributes, last,
                   absorbed, bc>>

(* 2. and 3., and the set-up of the loop. *)
BuildHeap ==
    /\ pc = "quadrics"
    /\ qi > Len(indices)
    /\ n' = Cardinality(DOMAIN vertices)
    /\ targetCount' = Round(n', target)
    /\ deletedCount' = 0
    /\ deletedFaces' = [t \in 1 .. Len(indices) |-> FALSE]
    /\ pc' = "loop"
    /\ last' = [op |-> "build",
                edges |-> InitialEdges(vertices, indices, distanceThreshold)]
    /\ pairs' = SeqToBag(last'.edges)
    /\ UNCHANGED <<mode, targets, attributes, indices, target, distanceThreshold,
                   warnings, vertices, qi, origIndices, origAttributes, absorbed, bc>>

(* pairs.pop() on an empty heap is undefined; reading .vertices throws. *)
PopEmpty ==
    /\ pc = "loop"
    /\ LoopCondition(n, deletedCount, targetCount)
    /\ pairs = EmptyBag
    /\ pc' = "aborted"
    /\ last' = [op |-> "throw"]
    /\ UNCHANGED <<mode, targets, attributes, indices, target, distanceThreshold,
                   warnings, vertices, qi, pairs, n, targetCount, deletedCount,
                   deletedFaces, origIndices, origAttributes, absorbed, bc>>

(* if (a === b) continue; *)
PopStale ==
    /\ pc = "loop"
    /\ LoopCondition(n, deletedCount, targetCount)
    /\ \E leastCost \in LeastCost(pairs) :
        /\ leastCost.vertices[1] = leastCost.vertices[2]
        /\ pairs' = pairs (-) SetToBag({leastCost})
        /\ last' = [op |-> "stale", pair |-> leastCost]
    /\ UNCHANGED <<pc, mode, targets, attributes, indices, target,
                   distanceThreshold, warnings, vertices, qi, n, targetCount,
                   deletedCount, deletedFaces, origIndices, origAttributes, absorbed, bc>>

Collapse ==
    /\ pc = "loop"
    /\ LoopCondition(n, deletedCount, targetCount)
    /\ \E leastCost \in LeastCost(pairs) :
        LET a == leastCost.vertices[1]
            b == leastCost.vertices[2]
            heap == pairs (-) SetToBag({leastCost})
        IN  /\ a # b
            /\ vertices' = [vertices EXCEPT
                              ![a].attributes = vertices[leastCost.result].attributes]
            /\ attributes' = updateVertex(attributes, a, vertices'[a])
            /\ deletedFaces' = [t \in DOMAIN deletedFaces |->
                                  deletedFaces[t] \/ FaceDeleted(indices[t], a, b)]
            /\ indices' = [t \in DOMAIN indices |-> ReplaceIndex(indices[t], a, b)]
            /\ pairs' = BagOfAll(LAMBDA edge : UpdateEdge(edge, vertices', a, b), heap)
            /\ deletedCount' = deletedCount + 1
            /\ last' = [op |-> "collapse", pair |-> leastCost]
            /\ absorbed' = absorbed \cup {b}
    /\ UNCHANGED <<pc, mode, targets, target, distanceThreshold, warnings, qi, n,
                   targetCount, origIndices, origAttributes, bc>>

(* 5. Update primitive. *)
Rebuild ==
    /\ pc = "loop"
    /\ ~LoopCondition(n, deletedCount, targetCount)
    /\ indices' = Compact(indices, deletedFaces, 1)
    /\ pc' = "done"
    /\ last' = [op |-> "rebuild", indices |-> indices, deletedFaces |-> deletedFaces]
    /\ UNCHANGED <<mode, targets, attributes, target, distanceThreshold, warnings,
                   vertices, qi, pairs, n, targetCount, deletedCount,
                   deletedFaces, origIndices, origAttributes, absorbed, bc>>

Next ==
    \/ SkipPrimitive
    \/ Preprocess
    \/ AccumulateQuadric
    \/ BuildHeap
    \/ PopEmpty
    \/ PopStale
    \/ Collapse
    \/ Rebuild

Spec == Init /\ [][Next]_vars

-----------------------------------------------------------------------------
(* boundsCheck in check-only mode.  Dimensions are whole numbers; the      *)
(* rescaling branch steps through fractional scales and is left out, so    *)
(* attemptRescale is drawn from {FALSE} only.                              *)

MaxDimensionDiffs == {0, 1}

Abs(x) == IF x < 0 THEN -x ELSE x

(* Object.assign(errorModelValue, props) *)
Assign(errorModelValue, props) ==
    [k \in DOMAIN errorModelValue \cup DOMAIN props |->
        IF k \in DOMAIN props THEN props[k] ELSE errorModelValue[k]]

heightDiff(o) == Abs(o.expectedHeight - o.actualHeight)

widthXZDiff(o) == Abs(o.expectedWidth - o.actualWidth)

depthXZDiff(o) == Abs(o.expectedDepth - o.actualDepth)

fitsXZWidth(o) == widthXZDiff(o) < o.maxDimensionDiff

fitsXZDepth(o) == depthXZDiff(o) < o.maxDimensionDiff

fitsXZDiff(o) == fitsXZWidth(o) /\ fitsXZDepth(o)

widthZXDiff(o) == Abs(o.expectedWidth - o.actualDepth)

depthZXDiff(o) == Abs(o.expectedDepth - o.actualWidth)

fitsZXWidth(o) == widthZXDiff(o) <= o.maxDimensionDiff

fitsZXDepth(o) == depthZXDiff(o) <= o.maxDimensionDiff

(* Mutation: the rotated depth is not looked at. *)
fitsZXDiffWidthOnly(o) == fitsZXWidth(o)

fitsZXDiff(o) == fitsZXWidth(o) /\ fitsZXDepth(o)

(* The two averages are compared through their doubles. *)
isDefaultOrientation(o) ==
    widthXZDiff(o) + depthXZDiff(o) <= widthZXDiff(o) + depthZXDiff(o)

(* An expected dimension that is falsy is reported with -1. *)
MissingDimensions(o, errorModelValue) ==
    LET w == IF o.expectedWidth = 0
             THEN Assign(errorModelValue,
                         [width |-> o.actualWidth, expectedWidth |-> -1])
             ELSE errorModelValue
        h == IF o.expectedHeight = 0
             THEN Assign(w, [height |-> o.actualHeight, expectedHeight |-> -1])
             ELSE w
    IN  IF o.expectedDepth = 0
        THEN Assign(h, [depth |-> o.actualDepth, expectedDepth |-> -1])
        ELSE h

CheckHeight(o, errorModelValue) ==
    IF heightDiff(o) > o.maxDimensionDiff
    THEN Assign(errorModelValue,
                [height |-> o.actualHeight, expectedHeight |-> o.expectedHeight])
    ELSE errorModelValue

CheckWidth(o, errorModelValue) ==
    IF isDefaultOrientation(o)
    THEN IF ~fitsXZWidth(o)
         THEN Assign(errorModelValue,
                     [width |-> o.actualWidth, expectedWidth |-> o.expectedWidth])
         ELSE errorModelValue
    ELSE IF ~fitsZXWidth(o)
         THEN Assign(errorModelValue,
                     [width |-> o.actualDepth, expectedWidth |-> o.expectedWidth])
         ELSE errorModelValue

CheckDepth(o, errorModelValue) ==
    IF isDefaultOrientation(o)
    THEN IF ~fitsXZDepth(o)
         THEN Assign(errorModelValue,
                     [depth |-> o.actualDepth, expectedDepth |-> o.expectedDepth])
         ELSE errorModelValue
    ELSE IF ~fitsZXDepth(o)
         THEN Assign(errorModelValue,
                     [depth |-> o.actualWidth, expectedDepth |-> o.expectedDepth])
         ELSE errorModelValue

CheckDimensions(o, errorModelValue) ==
    LET h == CheckHeight(o, errorModelValue)
    IN  IF ~fitsXZDiff(o) /\ ~fitsZXDiff(o)
        THEN CheckDepth(o, CheckWidth(o, h))
        ELSE h

InitBounds ==
    /\ pc = "idle"
    /\ mode = TRIANGLES
    /\ targets = 0
    /\ attributes = <<>>
    /\ indices = <<>>
    /\ target = <<1, 1>>
    /\ distanceThreshold = <<0, 1>>
    /\ warnings = 0
    /\ vertices = <<>>
    /\ qi = 1
    /\ pairs = EmptyBag
    /\ n = 0
    /\ targetCount = 0
    /\ deletedCount = 0
    /\ deletedFaces = <<>>
    /\ origIndices = <<>>
    /\ origAttributes = <<>>
    /\ last = [op |-> "none"]
    /\ absorbed = {}
    /\ \E aw, ah, ad, ew, eh, ed \in 0 .. MaxDim, m \in MaxDimensionDiffs :
          bc = [pc |-> "call",
                actualWidth |-> aw, actualHeight |-> ah, actualDepth |-> ad,
                expectedWidth |-> ew, expectedHeight |-> eh, expectedDepth |-> ed,
                maxDimensionDiff |-> m, attemptRescale |-> FALSE,
                errorModelValue |-> [k \in {} |-> 0]]

(* A falsy expected dimension: the call returns after reporting it. *)
BoundsCheckMissing ==
    /\ bc.pc = "call"
    /\ ~bc.attemptRescale
    /\ DOMAIN MissingDimensions(bc, bc.errorModelValue) # {}
    /\ bc' = [bc EXCEPT !.pc = "returned",
                        !.errorModelValue = MissingDimensions(bc, @)]
    /\ UNCHANGED <<pc, mode, targets, attributes, indices, target,
                   distanceThreshold, warnings, vertices, qi, pairs, n,
                   targetCount, deletedCount, deletedFaces, origIndices,
                   origAttributes, last, absorbed>>

BoundsCheck ==
    /\ bc.pc = "call"
    /\ ~bc.attemptRescale
    /\ DOMAIN MissingDimensions(bc, bc.errorModelValue) = {}
    /\ bc' = [bc EXCEPT !.pc = "returned",
                        !.errorModelValue = CheckDimensions(bc, @)]
    /\ UNCHANGED <<pc, mode, targets, attributes, indices, target,
                   distanceThreshold, warnings, vertices, qi, pairs, n,
                   targetCount, deletedCount, deletedFaces, origIndices,
                   origAttributes, last, absorbed>>

NextBounds ==
    \/ BoundsCheckMissing
    \/ BoundsCheck

SpecBounds == InitBounds /\ [][NextBounds]_vars

-----------------------------------------------------------------------------
(* Properties. *)

Degenerate(tri) == tri[1] = tri[2] \/ tri[2] = tri[3] \/ tri[1] = tri[3]

Referenced(idx) == UNION {{idx[t][1], idx[t][2], idx[t][3]} : t \in DOMAIN idx}

(* C1: the contraction loop never aborts: it is never asked for a pair     *)
(* after the heap has run empty while n - deletedCount > targetCount.      *)
C1_LoopNeverAborts == pc # "aborted"

(* C2: deletedCount never exceeds n - targetCount, and at the exit of the  *)
(* loop the remaining count n - deletedCount is at most targetCount and at *)
(* least targetCount - 1.                                                  *)
C2_TargetCountBound ==
    /\ pc \in {"loop", "done", "aborted"} =>
          /\ targetCount = Round(n, target)
          /\ deletedCount <= n - targetCount
    /\ pc = "done" =>
          /\ n - deletedCount <= targetCount
          /\ n - deletedCount >= targetCount - 1

C2_Witness == pc = "done" /\ deletedCount > 0 /\ n - deletedCount = targetCount

(* C3 as stated: no triangle of the index buffer written back has a        *)
(* repeated vertex index, whatever the input primitive.                    *)
C3_NoDegenerateWrittenBack ==
    pc = "done" => \A t \in DOMAIN indices : ~Degenerate(indices[t])

(* C3 amended: a triangle that has a repeated index in the loop and had    *)
(* none in the input carries the deleted flag, and the index buffer        *)
(* written back has no triangle with a repeated index when the input had   *)
(* none.                                                                   *)
C3_CollapsedFacesLeftOut ==
    /\ pc \in {"loop", "aborted"} =>
          \A t \in DOMAIN indices :
              Degenerate(indices[t]) /\ ~Degenerate(origIndices[t]) => deletedFaces[t]
    /\ pc = "done" /\ (\A t \in DOMAIN origIndices : ~Degenerate(origIndices[t])) =>
          \A t \in DOMAIN indices : ~Degenerate(indices[t])

C3_Witness ==
    /\ pc = "done"
    /\ \A t \in DOMAIN origIndices : ~Degenerate(origIndices[t])
    /\ \E t \in DOMAIN deletedFaces : deletedFaces[t]
    /\ indices # <<>>

(* C4: the index buffer written back has at most as many triangles as the  *)
(* input index buffer.                                                     *)
C4_TriangleCountNotIncreased == pc = "done" => Len(indices) <= Len(origIndices)

C4_Witness == pc = "done" /\ Len(indices) < Len(origIndices) /\ Len(indices) > 0

NewlyDeleted(t) == ~deletedFaces[t] /\ deletedFaces'[t]

(* C5 as stated: every counted collapse flags at least one triangle that   *)
(* was not flagged before.                                                 *)
C5_CollapseDeletesAFace ==
    [][deletedCount' = deletedCount + 1 =>
          \E t \in DOMAIN deletedFaces : NewlyDeleted(t)]_vars

(* C5 amended: a counted collapse of (a, b) never increases the number of  *)
(* surviving triangles: no flag is cleared, every triangle that held both  *)
(* a and b is flagged afterwards, and a triangle becomes flagged in that   *)
(* step exactly when it held both a and b and was not flagged yet.         *)
C5_CollapseNeverRevivesAFace ==
    [][deletedCount' = deletedCount + 1 =>
          LET a == last'.pair.vertices[1]
              b == last'.pair.vertices[2]
          IN  \A t \in DOMAIN deletedFaces :
                  /\ deletedFaces[t] => deletedFaces'[t]
                  /\ {a, b} \subseteq {indices[t][1], indices[t][2], indices[t][3]}
                        => deletedFaces'[t]
                  /\ NewlyDeleted(t) =>
                        {a, b} \subseteq {indices[t][1], indices[t][2], indices[t][3]}]_vars

(* A counted collapse has just run over a buffer whose flagged triangles   *)
(* were all flagged before it: the pair held no surviving triangle.        *)
C5_Witness ==
    /\ last.op = "collapse"
    /\ deletedCount >= 2
    /\ \E t \in DOMAIN deletedFaces : deletedFaces[t]
    /\ \E t \in DOMAIN deletedFaces : ~deletedFaces[t]

(* C6: the cube with target 0.5 and no distance threshold ends with at     *)
(* most 4 distinct vertex indices in the index buffer written back and     *)
(* with no triangle that repeats an index.                                 *)
C6_CubeHalved ==
    pc = "done" /\ origIndices = CubeIndices =>
        /\ Cardinality(Referenced(indices)) <= 4
        /\ \A t \in DOMAIN indices : ~Degenerate(indices[t])

(* C7: a primitive with morph targets or a draw mode other than TRIANGLES  *)
(* is left as it was (index buffer, attribute values, set of semantics)    *)
(* and gets exactly one warning.                                           *)
C7_SkippedPrimitiveUntouched ==
    (targets > 0 \/ mode # TRIANGLES) /\ pc # "start" =>
        /\ pc = "skipped"
        /\ indices = origIndices
        /\ attributes = origAttributes
        /\ warnings = 1

C7_Witness ==
    /\ pc = "skipped"
    /\ mode # TRIANGLES
    /\ targets = 0
    /\ indices # <<>>
    /\ "TANGENT" \in DOMAIN attributes

(* C8 as stated: whenever simplifyPrimitive has returned, the primitive    *)
(* has no TANGENT attribute.                                               *)
C8_TangentGoneOnReturn ==
    pc \in {"done", "skipped"} => "TANGENT" \notin DOMAIN attributes

(* C8 amended: a primitive that is not skipped (no morph targets, draw     *)
(* mode TRIANGLES) has no TANGENT attribute from the pre-processing step   *)
(* on, whatever the target and whether or not a collapse occurs.           *)
C8_TangentGoneUnlessSkipped ==
    targets = 0 /\ mode = TRIANGLES /\ pc # "start" =>
        "TANGENT" \notin DOMAIN attributes

C8_Witness ==
    /\ pc = "done"
    /\ "TANGENT" \in DOMAIN origAttributes
    /\ deletedCount = 0
    /\ DOMAIN attributes = DOMAIN origAttributes \ {"TANGENT"}

EdgeDerived(i, j, idx) ==
    \E t \in DOMAIN idx : \E p, q \in 1 .. 3 :
        p # q /\ idx[t][p] = i /\ idx[t][q] = j

(* C9: with distanceThreshold = 0 every pair of the initial pair list      *)
(* joins two corners of one triangle of the input index buffer.            *)
C9_PairsEdgeDerived ==
    last.op = "build" /\ distanceThreshold[1] = 0 =>
        /\ pairs = SeqToBag(last.edges)
        /\ \A k \in DOMAIN last.edges :
              EdgeDerived(last.edges[k].vertices[1], last.edges[k].vertices[2],
                          origIndices)

C9_Witness ==
    /\ last.op = "build"
    /\ distanceThreshold[1] = 0
    /\ Len(last.edges) >= 3
    /\ \E i, j \in DOMAIN vertices :
          i # j /\ \A k \in DOMAIN last.edges : last.edges[k].vertices # <<i, j>>

(* C10: the error quadric of every vertex is symmetric in every state.     *)
C10_QuadricSymmetric ==
    \A v \in DOMAIN vertices : \A i, j \in 0 .. 3 :
        vertices[v].error[4 * i + j] = vertices[v].error[4 * j + i]

C10_Witness ==
    /\ last.op = "collapse"
    /\ \E v \in DOMAIN vertices : \E i, j \in 0 .. 3 :
          i # j /\ vertices[v].error[4 * i + j] # 0

(* C11: for every two vertices, in every state, the error of either        *)
(* endpoint's position under the sum of the two quadrics is >= 0, and      *)
(* every cost stored in the heap is >= 0.  There are no vertices and no    *)
(* pairs at the start, so it is stated of every step that changes the      *)
(* vertices or the heap.                                                   *)
C11_ErrorNonNegative ==
    [][/\ vertices' # vertices =>
             \A i, j \in DOMAIN vertices' :
                 i <= j =>
                     LET quadratic == [k \in 0 .. 15 |->
                                          vertices'[i].error[k] + vertices'[j].error[k]]
                     IN  /\ vertexError(vertices'[i], quadratic) >= 0
                         /\ vertexError(vertices'[j], quadratic) >= 0
       /\ pairs' # pairs => \A e \in BagToSet(pairs') : e.cost >= 0]_vars

C11_Witness ==
    /\ last.op = "collapse"
    /\ \E e \in BagToSet(pairs) : e.cost > 0 /\ e.vertices[1] # e.vertices[2]
    /\ \E e \in BagToSet(pairs) : e.cost # last.pair.cost

(* C12: a check-only call with three non-zero expected dimensions and an   *)
(* empty errorModelValue returns with errorModelValue non-empty whenever   *)
(* the height is off by more than maxDimensionDiff, or width and depth fit *)
(* in neither the default nor the rotated orientation.                     *)
C12_CheckOnlyReportsMisfit ==
    (/\ bc.pc = "returned"
     /\ ~bc.attemptRescale
     /\ bc.expectedWidth # 0 /\ bc.expectedHeight # 0 /\ bc.expectedDepth # 0) =>
        LET m == bc.maxDimensionDiff
            tall == Abs(bc.expectedHeight - bc.actualHeight) > m
            fitsDefault == /\ Abs(bc.expectedWidth - bc.actualWidth) < m
                           /\ Abs(bc.expectedDepth - bc.actualDepth) < m
            fitsRotated == /\ Abs(bc.expectedWidth - bc.actualDepth) <= m
                           /\ Abs(bc.expectedDepth - bc.actualWidth) <= m
        IN  (tall \/ (~fitsDefault /\ ~fitsRotated)) =>
                DOMAIN bc.errorModelValue # {}

C12_Witness ==
    /\ bc.pc = "returned"
    /\ bc.expectedWidth # 0 /\ bc.expectedHeight # 0 /\ bc.expectedDepth # 0
    /\ Abs(bc.expectedHeight - bc.actualHeight) <= bc.maxDimensionDiff
    /\ Abs(bc.expectedWidth - bc.actualWidth) > bc.maxDimensionDiff
    /\ Abs(bc.expectedDepth - bc.actualWidth) > bc.maxDimensionDiff
    /\ DOMAIN bc.errorModelValue = {"width", "expectedWidth"}

(* C13: for a mesh without degenerate triangles the initial pair list      *)
(* holds every edge {i, j} of the mesh as (min, max), and no two of its    *)
(* records name the same edge.                                             *)
C13_EachEdgeOnce ==
    (/\ last.op = "build"
     /\ \A t \in DOMAIN origIndices : ~Degenerate(origIndices[t])) =>
        /\ \A k \in DOMAIN last.edges :
              last.edges[k].vertices[1] < last.edges[k].vertices[2]
        /\ \A i, j \in DOMAIN vertices :
              (i < j /\ EdgeDerived(i, j, origIndices)) =>
                  \E k \in DOMAIN last.edges : last.edges[k].vertices = <<i, j>>
        /\ \A k, l \in DOMAIN last.edges :
              k # l => last.edges[k].vertices # last.edges[l].vertices

(* C14: right after a counted collapse of (a, b) no pair record left in    *)
(* the heap names the absorbed index b.                                    *)
C14_NoPairReferencesAbsorbed ==
    last.op = "collapse" =>
        \A e \in BagToSet(pairs) :
            /\ e.vertices[1] # last.pair.vertices[2]
            /\ e.vertices[2] # last.pair.vertices[2]

(* C15: a counted collapse of (a, b) leaves vertex a holding the sum of    *)
(* the quadrics a and b held before the step.                              *)
C15_QuadricMerged ==
    [][deletedCount' = deletedCount + 1 =>
          LET a == last'.pair.vertices[1]
              b == last'.pair.vertices[2]
          IN  \A k \in 0 .. 15 :
                  vertices'[a].error[k] = vertices[a].error[k] + vertices[b].error[k]]_vars

C17_StoredMergeCurrent ==
    [][deletedCount' = deletedCount + 1 =>
          LET a == last'.pair.vertices[1]
              b == last'.pair.vertices[2]
          IN  /\ last'.pair.result \in {a, b}
              /\ last'.pair.cost = merge(vertices[a], vertices[b]).cost
              /\ last'.pair.result = merge(vertices[a], vertices[b]).result]_vars

(* C18: a counted collapse of (a, b) sets every semantic at index a to the *)
(* value the pair's result holds and leaves every other element of the     *)
(* attribute buffers as it was; a stale pop leaves the buffers as they     *)
(* were.                                                                   *)
C18_CollapseWritesOnlyAtA ==
    [][/\ deletedCount' = deletedCount + 1 =>
             LET a == last'.pair.vertices[1]
                 result == vertices[last'.pair.result]
             IN  /\ DOMAIN attributes' = DOMAIN attributes
                 /\ \A s \in DOMAIN attributes :
                       /\ Len(attributes'[s]) = Len(attributes[s])
                       /\ \A k \in DOMAIN attributes[s] :
                             attributes'[s][k] = IF k = a + 1
                                                 THEN result.attributes[s]
                                                 ELSE attributes[s][k]
       /\ (pc = "loop" /\ last'.op = "stale") => attributes' = attributes]_vars

C18_Witness ==
    /\ last.op = "collapse"
    /\ last.pair.result # last.pair.vertices[1]
    /\ attributes # origAttributes
    /\ attributes.POSITION[last.pair.vertices[2] + 1]
          = origAttributes.POSITION[last.pair.vertices[2] + 1]

(* C19: the index buffer written back by the rebuild holds the triangles   *)
(* not flagged deleted, as they stand after the loop and in their original *)
(* relative order: 3 * (triangle count - flagged count) indices.           *)
C19_RebuildKeepsUnflagged ==
    (pc = "done" /\ last.op = "rebuild") =>
        LET kept == {t \in DOMAIN last.indices : ~last.deletedFaces[t]}
            flagged == {t \in DOMAIN last.indices : last.deletedFaces[t]}
        IN  /\ 3 * Len(indices) = 3 * (Len(last.indices) - Cardinality(flagged))
            /\ \A t \in kept :
                  indices[Cardinality({u \in kept : u <= t})] = last.indices[t]

C19_Witness ==
    /\ pc = "done"
    /\ last.op = "rebuild"
    /\ \E t, u \in DOMAIN last.indices :
          /\ t < u
          /\ last.deletedFaces[t]
          /\ ~last.deletedFaces[u]
          /\ last.indices[u] # origIndices[u]
    /\ Len(indices) >= 2
    /\ indices[1] # indices[Len(indices)]

(* C20: a vertex index absorbed as b by a counted collapse is retired: it  *)
(* occurs in the index buffer in no later state, it is neither a nor b of  *)
(* a later counted collapse, and deletedCount is the number of distinct    *)
(* indices absorbed.                                                       *)
C20_AbsorbedRetired ==
    /\ Referenced(indices) \cap absorbed = {}
    /\ last.op = "collapse" => last.pair.vertices[1] \notin absorbed
    /\ deletedCount = Cardinality(absorbed)

(* C21: when round(n * target) >= n, that is n * target + 1/2 >= n, a      *)
(* primitive that is not skipped goes through without a collapse: the      *)
(* loop is never entered, the index buffer keeps its input contents up to  *)
(* and after the rebuild, and the attributes are the input ones less       *)
(* TANGENT.                                                                *)
C21_NoCollapseAtFullTarget ==
    LET count == Len(origAttributes.POSITION)
    IN  (/\ pc \in {"quadrics", "loop", "done", "aborted"}
         /\ 2 * count * target[1] + target[2] >= 2 * count * target[2]) =>
            /\ pc # "aborted"
            /\ deletedCount = 0
            /\ absorbed = {}
            /\ last.op \in {"none", "build", "rebuild"}
            /\ indices = origIndices
            /\ DOMAIN attributes = DOMAIN origAttributes \ {"TANGENT"}
            /\ \A s \in DOMAIN attributes : attributes[s] = origAttributes[s]

C21_Witness ==
    /\ pc = "done"
    /\ last.op = "rebuild"
    /\ target = <<9, 10>>
    /\ n = 3
    /\ targetCount = 3
    /\ "TANGENT" \in DOMAIN origAttributes
    /\ pairs # EmptyBag
    /\ indices = origIndices
    /\ indices # <<>>

====
